---- MODULE Spec2Model ----
(***************************************************************************)
(* Model of the gameplay systems of hppr (src/src/main.rs): the per-frame  *)
(* systems ground_detection, ladder_and_pad_detection and movement acting  *)
(* on the Player component and its Velocity, with the physics step that    *)
(* separates two frames.                                                   *)
(***************************************************************************)
EXTENDS Integers, Sequences, FiniteSets, TLC

VARIABLES
    nPlayers,   \* number of entities carrying the Player component (set by the map)
    player,     \* the Player component: on_ground, on_ladder, over_ladders
    velocity,   \* the player's Velocity.linear: x, y
    ladders,    \* entities matched by Query<&Ladder>
    pads,       \* entities matched by Query<&Pad>
    ran,        \* the systems that have run in the current frame, in run order
    padBegan,   \* a pad begin-contact was processed for the player in the current frame
    last,       \* the last step taken: its name, the state it started from, its inputs
    leftLast,   \* the last overlapping ladder was left by a contact event of the current frame
    cameras,    \* number of entities carrying an OrthographicProjection
    projection, \* the camera's OrthographicProjection
    levels,     \* pixel sizes of the levels in Assets<LdtkLevel>
    window,     \* the primary window's width and height
    fit,        \* the last run of fit_camera: the level it found, the projection before
    spawned,    \* the colliders spawned from the map: the cell code or entity, and its bundle
    time_scale, \* the scale of PhysicsTime
    lastLoad,   \* the most recent SpawnTriggered or Transformed level event read
    loadLog     \* the last run of pause_physics_during_load: its events, the scale before

frameVars == <<nPlayers, player, velocity, ladders, pads, ran, padBegan, last, leftLast>>
cameraVars == <<cameras, projection, levels, window, fit>>
tileVars == <<spawned>>
loadVars == <<time_scale, lastLoad, loadLog>>

vars == <<frameVars, cameraVars, tileVars, loadVars>>

----------------------------------------------------------------------------
(* Bounds of the model *)

\* largest number of Player entities the map may spawn
MaxPlayers == 2

\* largest number of collision events delivered to one run of ladder_and_pad_detection
MaxEvents == 1

\* largest number of collision events in a batch when the contact tracker is run alone
MaxBatch == 3

\* largest pixel width and height of a small level
MaxPx == 2

\* largest number of levels in Assets<LdtkLevel>
MaxLevels == 1

\* largest window width
MaxWindowWidth == 3

\* largest cell code an int grid of the map may hold
MaxCode == 4

\* largest number of colliders built from the map
MaxSpawned == 3

\* largest number of level events read by one run of pause_physics_during_load
MaxLevelEvents == 3

----------------------------------------------------------------------------
(* Program constants *)

RunSpeed == 100
ClimbSpeed == 100
JumpSpeed == 200
PadSpeed == 350

----------------------------------------------------------------------------
(* Entities of the world *)

PlayerEntity == "player"
LadderA == "ladderA"
LadderB == "ladderB"
PadEntity == "pad"
WallEntity == "wall"

LadderEntities == {LadderA, LadderB}
OtherEntities == {LadderA, LadderB, PadEntity, WallEntity}

\* heron's CollisionEvent: Started(a, b) or Stopped(a, b)
Started(a, b) == [kind |-> "Started", a |-> a, b |-> b]
Stopped(a, b) == [kind |-> "Stopped", a |-> a, b |-> b]

\* the contact pairs of the player with a ladder or the pad, the player on either side
ContactPairs ==
    {<<PlayerEntity, o>> : o \in LadderEntities \cup {PadEntity}}
        \cup {<<o, PlayerEntity>> : o \in LadderEntities \cup {PadEntity}}

\* every contact pair: the player with any other body, and a pair without the player
AllContactPairs ==
    {<<PlayerEntity, o>> : o \in OtherEntities}
        \cup {<<o, PlayerEntity>> : o \in OtherEntities}
        \cup {<<WallEntity, LadderA>>}

EventsOf(pairs) ==
    {Started(p[1], p[2]) : p \in pairs} \cup {Stopped(p[1], p[2]) : p \in pairs}

CollisionEvents == EventsOf(ContactPairs)

AllCollisionEvents == EventsOf(AllContactPairs)

RECURSIVE SeqsUpTo(_, _)
SeqsUpTo(S, n) ==
    IF n = 0 THEN {<<>>}
    ELSE LET shorter == SeqsUpTo(S, n - 1)
         IN shorter \cup {Append(s, e) : s \in {t \in shorter : Len(t) = n - 1}, e \in S}

\* the batches an EventReader<CollisionEvent> may yield in one frame
Batches == SeqsUpTo(CollisionEvents, MaxEvents)

\* the batches handed to the contact tracker when it is run alone
LongBatches == SeqsUpTo(AllCollisionEvents, MaxBatch)

\* keys whose held state movement reads
Keys == {"W", "A", "S", "D"}

\* velocities the physics step may leave on an axis besides the current one
PhysicsSpeeds == {-250, 0}

----------------------------------------------------------------------------
(* The Player component and the query that finds it *)

\* #[derive(Default)] struct Player
DefaultPlayer == [on_ground |-> FALSE, on_ladder |-> FALSE, over_ladders |-> {}]

DefaultVelocity == [x |-> 0, y |-> 0]

\* Query::get_single_mut: Ok only when exactly one entity matches
GetSingleOrNone(n) == n <= 1
GetSingleFirst(n) == n >= 1
GetSingle(n) == n = 1

----------------------------------------------------------------------------
(* ground_detection *)

RayOrSticky(p, right, left) == [p EXCEPT !.on_ground = p.on_ground \/ right \/ left]
GroundDetection(p, right, left) == [p EXCEPT !.on_ground = right \/ left]

----------------------------------------------------------------------------
(* ladder_and_pad_detection: one collision event, then the whole batch *)

\* s = [player |-> ..., velocity |-> ..., pad |-> ...]; other = the body that is not the player
OnStartedReplace(s, other) ==
    LET p1 == IF other \in ladders
              THEN [s.player EXCEPT !.over_ladders = {other}]
              ELSE s.player
        v1 == IF other \in pads
              THEN [s.velocity EXCEPT !.y = PadSpeed]
              ELSE s.velocity
    IN [player |-> p1, velocity |-> v1, pad |-> s.pad \/ other \in pads]
OnStarted(s, other) ==
    LET p1 == IF other \in ladders
              THEN [s.player EXCEPT !.over_ladders = @ \cup {other}]
              ELSE s.player
        v1 == IF other \in pads
              THEN [s.velocity EXCEPT !.y = PadSpeed]
              ELSE s.velocity
    IN [player |-> p1, velocity |-> v1, pad |-> s.pad \/ other \in pads]

OnStoppedClear(s, other) ==
    IF other \in ladders
    THEN [s EXCEPT !.player.over_ladders = {}]
    ELSE s
OnStopped(s, other) ==
    IF other \in ladders
    THEN [s EXCEPT !.player.over_ladders = @ \ {other}]
    ELSE s

\* a bug: the first body of a begin-contact is taken for the player unchecked
OnCollisionAnyFirstBody(s, col) ==
    IF col.kind = "Started" /\ col.b # PlayerEntity THEN OnStarted(s, col.b)
    ELSE IF col.kind = "Started" /\ col.b = PlayerEntity THEN OnStarted(s, col.a)
    ELSE IF col.kind = "Stopped" /\ col.a = PlayerEntity THEN OnStopped(s, col.b)
    ELSE IF col.kind = "Stopped" /\ col.b = PlayerEntity THEN OnStopped(s, col.a)
    ELSE s

OnCollision(s, col) ==
    IF col.kind = "Started" /\ col.a = PlayerEntity THEN OnStarted(s, col.b)
    ELSE IF col.kind = "Started" /\ col.b = PlayerEntity THEN OnStarted(s, col.a)
    ELSE IF col.kind = "Stopped" /\ col.a = PlayerEntity THEN OnStopped(s, col.b)
    ELSE IF col.kind = "Stopped" /\ col.b = PlayerEntity THEN OnStopped(s, col.a)
    ELSE s

RECURSIVE ProcessCollisions(_, _)
ProcessCollisions(s, batch) ==
    IF batch = <<>> THEN s
    ELSE ProcessCollisions(OnCollision(s, Head(batch)), Tail(batch))

----------------------------------------------------------------------------
(* movement *)

Held(keys, k) == IF k \in keys THEN 1 ELSE 0

\* velocity.linear.x from the held D and A keys
HorizontalRightWins(keys) ==
    IF "D" \in keys THEN RunSpeed ELSE IF "A" \in keys THEN -RunSpeed ELSE 0
HorizontalVelocity(keys) == (Held(keys, "D") - Held(keys, "A")) * RunSpeed

\* velocity.linear.y after the on_ladder branch
ClimbAddsToVelocity(on_ladder, vy, keys) ==
    IF on_ladder THEN vy + (Held(keys, "W") - Held(keys, "S")) * ClimbSpeed ELSE vy
ClimbVelocity(on_ladder, vy, keys) ==
    IF on_ladder THEN (Held(keys, "W") - Held(keys, "S")) * ClimbSpeed ELSE vy

\* the condition of the jump branch, without the support test
JumpWithoutSupport(p, space) == space
\* the condition of the jump branch
JumpFires(p, space) == (p.on_ground \/ p.on_ladder) /\ space

\* player.on_ladder after the last branch, from its value after the jump branch
EngagementKeepsFlag(on_ladder, over_ladders, keys) ==
    IF over_ladders # {} /\ ("W" \in keys \/ "S" \in keys) THEN TRUE ELSE on_ladder
EngagementWithoutKeys(on_ladder, over_ladders, keys) ==
    over_ladders # {}
LadderEngagement(on_ladder, over_ladders, keys) ==
    IF over_ladders = {} THEN FALSE
    ELSE IF "W" \in keys \/ "S" \in keys THEN TRUE
    ELSE on_ladder

\* a bug: on_ladder is refreshed from over_ladders before the branches read it
MovementRefreshesFlagFirst(s, keys, space) ==
    LET vx == HorizontalVelocity(keys)
        l0 == s.player.on_ladder /\ s.player.over_ladders # {}
        vy1 == ClimbVelocity(l0, s.velocity.y, keys)
        jump == JumpFires([s.player EXCEPT !.on_ladder = l0], space)
        vy2 == IF jump THEN JumpSpeed ELSE vy1
        l2 == IF jump THEN FALSE ELSE l0
        l3 == LadderEngagement(l2, s.player.over_ladders, keys)
    IN [player |-> [s.player EXCEPT !.on_ladder = l3],
        velocity |-> [x |-> vx, y |-> vy2]]

\* s = [player |-> ..., velocity |-> ...]; keys = the held keys; space = Space just pressed
Movement(s, keys, space) ==
    LET vx == HorizontalVelocity(keys)
        vy1 == ClimbVelocity(s.player.on_ladder, s.velocity.y, keys)
        jump == JumpFires(s.player, space)
        vy2 == IF jump THEN JumpSpeed ELSE vy1
        l2 == IF jump THEN FALSE ELSE s.player.on_ladder
        l3 == LadderEngagement(l2, s.player.over_ladders, keys)
    IN [player |-> [s.player EXCEPT !.on_ladder = l3],
        velocity |-> [x |-> vx, y |-> vy2]]

----------------------------------------------------------------------------
(* The frame: the three systems run once each, in an order the schedule does  *)
(* not fix, and the physics step then starts the next frame.                  *)

Systems == {"ground_detection", "ladder_and_pad_detection", "movement"}

HasRun(sys) == \E i \in 1..Len(ran) : ran[i] = sys

Snapshot == [player |-> player, velocity |-> velocity]

NoInputs == [batch |-> <<>>, keys |-> {}, space |-> FALSE, right |-> FALSE, left |-> FALSE]

Step(sys, inputs) == [sys |-> sys, pre |-> Snapshot, in |-> inputs]

\* OrthographicCameraBundle::new_2d before any fit
DefaultProjection ==
    [left |-> -1, right |-> 1, bottom |-> -1, top |-> 1, scaling_mode |-> "WindowSize"]

NoLevel == <<0, 0>>

\* the state of the camera, the map colliders and the physics clock at start-up
InitLevel ==
    /\ cameras = 0
    /\ projection = DefaultProjection
    /\ levels = {}
    /\ window = [width |-> 1, height |-> 1]
    /\ fit = [matched |-> NoLevel, pre |-> DefaultProjection, window |-> window]
    /\ spawned = <<>>
    /\ time_scale = 1
    /\ lastLoad = "none"
    /\ loadLog = [batch |-> <<>>, pre |-> 1]

Init ==
    /\ nPlayers \in 0..MaxPlayers
    /\ player = DefaultPlayer
    /\ velocity = DefaultVelocity
    /\ ladders = LadderEntities
    /\ pads = {PadEntity}
    /\ ran = <<>>
    /\ padBegan = FALSE
    /\ leftLast = FALSE
    /\ last = [sys |-> "spawn", pre |-> [player |-> DefaultPlayer, velocity |-> DefaultVelocity],
               in |-> NoInputs]
    /\ InitLevel

ground_detection ==
    /\ ~HasRun("ground_detection")
    /\ \E right \in BOOLEAN, left \in BOOLEAN :
        /\ player' = IF GetSingle(nPlayers) THEN GroundDetection(player, right, left) ELSE player
        /\ last' = Step("ground_detection", [NoInputs EXCEPT !.right = right, !.left = left])
    /\ ran' = Append(ran, "ground_detection")
    /\ UNCHANGED <<nPlayers, velocity, ladders, pads, padBegan, leftLast>>
    /\ UNCHANGED <<cameraVars, tileVars, loadVars>>

LadderAndPadDetection(batches) ==
    /\ ~HasRun("ladder_and_pad_detection")
    /\ \E batch \in batches :
        LET s == IF GetSingle(nPlayers)
                 THEN ProcessCollisions(
                        [player |-> player, velocity |-> velocity, pad |-> padBegan], batch)
                 ELSE [player |-> player, velocity |-> velocity, pad |-> padBegan]
        IN /\ player' = s.player
           /\ velocity' = s.velocity
           /\ padBegan' = s.pad
           /\ leftLast' = (leftLast \/ (player.over_ladders # {} /\ s.player.over_ladders = {}))
           /\ last' = Step("ladder_and_pad_detection", [NoInputs EXCEPT !.batch = batch])
    /\ ran' = Append(ran, "ladder_and_pad_detection")
    /\ UNCHANGED <<nPlayers, ladders, pads>>
    /\ UNCHANGED <<cameraVars, tileVars, loadVars>>

ladder_and_pad_detection == LadderAndPadDetection(Batches)

movement ==
    /\ ~HasRun("movement")
    /\ \E keys \in SUBSET Keys, space \in BOOLEAN :
        LET s == IF GetSingle(nPlayers) THEN Movement(Snapshot, keys, space) ELSE Snapshot
        IN /\ player' = s.player
           /\ velocity' = s.velocity
           /\ last' = Step("movement", [NoInputs EXCEPT !.keys = keys, !.space = space])
    /\ ran' = Append(ran, "movement")
    /\ UNCHANGED <<nPlayers, ladders, pads, padBegan, leftLast>>
    /\ UNCHANGED <<cameraVars, tileVars, loadVars>>

\* heron's physics step: integrates the bodies and ends the frame
PhysicsStep ==
    /\ Len(ran) = Cardinality(Systems)
    /\ \E vx \in {velocity.x, 0}, vy \in {velocity.y} \cup PhysicsSpeeds :
        velocity' = [x |-> vx, y |-> vy]
    /\ ran' = <<>>
    /\ padBegan' = FALSE
    /\ leftLast' = FALSE
    /\ last' = Step("physics", NoInputs)
    /\ UNCHANGED <<nPlayers, player, ladders, pads>>
    /\ UNCHANGED <<cameraVars, tileVars, loadVars>>

Next ==
    \/ ground_detection
    \/ ladder_and_pad_detection
    \/ movement
    \/ PhysicsStep

Spec == Init /\ [][Next]_vars

----------------------------------------------------------------------------
(* The contact tracker alone: one run of ladder_and_pad_detection on a batch  *)
(* of any contact events, from a state the single player can be in.           *)

InitContacts ==
    /\ nPlayers = 1
    /\ \E over \in SUBSET LadderEntities, climbing \in BOOLEAN :
        /\ climbing => over # {}
        /\ player = [on_ground |-> FALSE, on_ladder |-> climbing, over_ladders |-> over]
        /\ last = [sys |-> "spawn", pre |-> [player |-> player, velocity |-> DefaultVelocity],
                   in |-> NoInputs]
    /\ velocity = DefaultVelocity
    /\ ladders = LadderEntities
    /\ pads = {PadEntity}
    /\ ran = <<>>
    /\ padBegan = FALSE
    /\ leftLast = FALSE
    /\ InitLevel

contact_tracking == LadderAndPadDetection(LongBatches)

NextContacts == contact_tracking

SpecContacts == InitContacts /\ [][NextContacts]_vars

----------------------------------------------------------------------------
(* fit_camera. The window aspect is width / height; the heights are powers of  *)
(* two, so the aspect and the products below are exact in f32 and the          *)
(* comparison and the rounding are those of the rationals.                     *)

\* px_wid, px_hei of the levels the map may hold
LevelSizes == ((1..MaxPx) \X (1..MaxPx)) \cup {<<320, 180>>}

WindowHeights == {1, 2}

Windows == [width : 1..MaxWindowWidth, height : WindowHeights]

\* f32::round of n / d for n >= 0, d > 0: halves round away from zero
Round(n, d) == (2 * n + d) \div (2 * d)

\* level_aspect < window_aspect, and the comparison turned around
LevelWiderThanWindow(level, win) == level[1] * win.height > win.width * level[2]
LevelNarrowerThanWindow(level, win) == level[1] * win.height < win.width * level[2]

\* the projection fit_camera writes for the level it found
FitCamera(level, win) ==
    IF LevelNarrowerThanWindow(level, win)
    THEN [left |-> 0, bottom |-> 0, scaling_mode |-> "None",
          right |-> Round(level[2] * win.width, win.height),
          top |-> level[2]]
    ELSE [left |-> 0, bottom |-> 0, scaling_mode |-> "None",
          top |-> Round(level[1] * win.height, win.width),
          right |-> level[1]]

\* setup, on entering GameState::Playing: spawns the one camera
setup ==
    /\ cameras = 0
    /\ cameras' = 1
    /\ UNCHANGED <<projection, levels, window, fit>>
    /\ UNCHANGED <<frameVars, tileVars, loadVars>>

\* the asset server finishes loading a level of the map
level_loaded ==
    /\ Cardinality(levels) < MaxLevels
    /\ \E level \in LevelSizes \ levels : levels' = levels \cup {level}
    /\ UNCHANGED <<cameras, projection, window, fit>>
    /\ UNCHANGED <<frameVars, tileVars, loadVars>>

\* the user resizes the primary window
window_resized ==
    /\ \E win \in Windows \ {window} : window' = win
    /\ UNCHANGED <<cameras, projection, levels, fit>>
    /\ UNCHANGED <<frameVars, tileVars, loadVars>>

\* LevelSelection::Index(0).is_match(&0, level) holds of every level, so find
\* yields the first level the asset map iterates, whichever that is
fit_camera ==
    /\ IF GetSingle(cameras) /\ levels # {}
       THEN \E level \in levels :
                /\ projection' = FitCamera(level, window)
                /\ fit' = [matched |-> level, pre |-> projection, window |-> window]
       ELSE /\ projection' = projection
            /\ fit' = [matched |-> NoLevel, pre |-> projection, window |-> window]
    /\ UNCHANGED <<cameras, levels, window>>
    /\ UNCHANGED <<frameVars, tileVars, loadVars>>

NextCamera ==
    \/ setup
    \/ level_loaded
    \/ window_resized
    \/ fit_camera

InitCamera ==
    /\ nPlayers = 1
    /\ player = DefaultPlayer
    /\ velocity = DefaultVelocity
    /\ ladders = LadderEntities
    /\ pads = {PadEntity}
    /\ ran = <<>>
    /\ padBegan = FALSE
    /\ leftLast = FALSE
    /\ last = [sys |-> "spawn", pre |-> [player |-> DefaultPlayer, velocity |-> DefaultVelocity],
               in |-> NoInputs]
    /\ InitLevel

SpecCamera == InitCamera /\ [][NextCamera]_vars

----------------------------------------------------------------------------
(* Vocabulary of the claims *)

\* the step just taken, the state it started from and the inputs it read
AfterStep(sys) == last.sys = sys
Pre == last.pre
In == last.in

\* position of a system in the current frame's run order (0: has not run)
Position(sys) ==
    IF HasRun(sys) THEN CHOOSE i \in 1..Len(ran) : ran[i] = sys ELSE 0

\* every system has run in the current frame
FrameComplete == Len(ran) = Cardinality(Systems)

\* ladder_and_pad_detection ran before movement in the current frame
DetectionThenMovement ==
    /\ HasRun("ladder_and_pad_detection")
    /\ HasRun("movement")
    /\ Position("ladder_and_pad_detection") < Position("movement")

ClimbKeyHeld(keys) == "W" \in keys \/ "S" \in keys

----------------------------------------------------------------------------
(* C1: a movement step that starts with on_ladder true, on_ground false and  *)
(* Space just pressed ends with vertical velocity 200 and on_ladder false,   *)
(* whatever keys are held and whatever over_ladders holds.                   *)
C1_JumpExitsLadder ==
    (AfterStep("movement") /\ Pre.player.on_ladder /\ ~Pre.player.on_ground /\ In.space)
        => (velocity.y = JumpSpeed /\ ~player.on_ladder)

(* C2: at the end of every frame in which a pad begin-contact of the player  *)
(* was processed, the player's vertical velocity is 350.                      *)
C2_PadImpulseSurvivesFrame ==
    (FrameComplete /\ padBegan) => velocity.y = PadSpeed

(* C3: after every movement step, and at the end of every frame in which      *)
(* ladder_and_pad_detection ran before movement, on_ladder implies that       *)
(* over_ladders is non-empty; and on_ladder turns from false to true only in  *)
(* a movement step with over_ladders non-empty.                               *)
C3_LadderFlagInvariant ==
    /\ AfterStep("movement") => (player.on_ladder => player.over_ladders # {})
    /\ (FrameComplete /\ DetectionThenMovement)
            => (player.on_ladder => player.over_ladders # {})
    /\ (player.on_ladder /\ ~Pre.player.on_ladder)
            => (AfterStep("movement") /\ Pre.player.over_ladders # {})

\* a frame ends in which the last ladder was left before movement ran with W held
C3_Witness ==
    /\ FrameComplete /\ DetectionThenMovement
    /\ AfterStep("movement")
    /\ Pre.player.on_ladder /\ Pre.player.over_ladders = {}
    /\ "W" \in In.keys
    /\ ~player.on_ladder

(* C4, as stated: a movement step with over_ladders non-empty and neither W   *)
(* nor S held leaves on_ladder as it was, Space just pressed or not.          *)
C4_FlagUntouchedWithoutClimbKey ==
    (AfterStep("movement") /\ Pre.player.over_ladders # {} /\ ~ClimbKeyHeld(In.keys))
        => player.on_ladder = Pre.player.on_ladder

(* C4, amended: such a step leaves on_ladder as it was unless Space is just   *)
(* pressed; with Space just pressed on_ladder is false after the step.        *)
C4_FlagWithoutClimbKey ==
    (AfterStep("movement") /\ Pre.player.over_ladders # {} /\ ~ClimbKeyHeld(In.keys))
        => player.on_ladder = (Pre.player.on_ladder /\ ~In.space)

\* the player stays on the ladder through a movement step with no climb key held
C4_Witness ==
    /\ AfterStep("movement")
    /\ Pre.player.over_ladders # {} /\ ~ClimbKeyHeld(In.keys)
    /\ Pre.player.on_ladder /\ ~In.space
    /\ player.on_ladder

----------------------------------------------------------------------------
\* col is a begin-contact (an end-contact) between the player and body other
IsBegin(col, other) ==
    col.kind = "Started" /\ {col.a, col.b} = {PlayerEntity, other}
IsEnd(col, other) ==
    col.kind = "Stopped" /\ {col.a, col.b} = {PlayerEntity, other}

\* batch delivers begin(ladderA), begin(ladderB) and end(ladderA) at positions i, j, k
DeliversAt(batch, i, j, k) ==
    /\ Len(batch) = 3
    /\ {i, j, k} = 1..3
    /\ IsBegin(batch[i], LadderA)
    /\ IsBegin(batch[j], LadderB)
    /\ IsEnd(batch[k], LadderA)

(* C5, as stated: from an empty over_ladders, every delivery order of         *)
(* begin(ladderA), begin(ladderB), end(ladderA) leaves over_ladders =         *)
(* {ladderB}.                                                                 *)
C5_AnyOrderLeavesLadderB ==
    (AfterStep("ladder_and_pad_detection") /\ Pre.player.over_ladders = {}
        /\ \E i, j, k \in 1..3 : DeliversAt(In.batch, i, j, k))
        => player.over_ladders = {LadderB}

(* C5, amended: from an empty over_ladders, a delivery order in which         *)
(* end(ladderA) comes after begin(ladderA) leaves over_ladders = {ladderB};   *)
(* an order in which end(ladderA) comes first leaves {ladderA, ladderB}.      *)
C5_OrderOfLadderEvents ==
    \A i, j, k \in 1..3 :
        (AfterStep("ladder_and_pad_detection") /\ Pre.player.over_ladders = {}
            /\ DeliversAt(In.batch, i, j, k))
            => player.over_ladders = IF i < k THEN {LadderB} ELSE {LadderA, LadderB}

\* begin(ladderB), begin(ladderA), end(ladderA) were delivered in this order
C5_Witness ==
    /\ AfterStep("ladder_and_pad_detection")
    /\ Pre.player.over_ladders = {}
    /\ DeliversAt(In.batch, 2, 1, 3)
    /\ player.over_ladders = {LadderB}

(* C6: an end-contact between the player and a ladder that is not in          *)
(* over_ladders leaves over_ladders, on_ladder, on_ground and the velocity    *)
(* unchanged, in every reachable state.                                       *)
C6_AbsentLadderRemovalIsNoOp ==
    /\ \A l \in ladders \ player.over_ladders :
        \A col \in {Stopped(PlayerEntity, l), Stopped(l, PlayerEntity)} :
            LET s == ProcessCollisions(
                        [player |-> player, velocity |-> velocity, pad |-> padBegan], <<col>>)
            IN s.player = player /\ s.velocity = velocity
    /\ \A l \in ladders \ Pre.player.over_ladders :
        (AfterStep("ladder_and_pad_detection") /\ GetSingle(nPlayers)
            /\ Len(In.batch) = 1 /\ IsEnd(In.batch[1], l))
            => Snapshot = Pre

\* end(ladderA) was processed while the player was over ladderB only
C6_Witness ==
    /\ AfterStep("ladder_and_pad_detection")
    /\ In.batch = <<Stopped(LadderA, PlayerEntity)>>
    /\ Pre.player.over_ladders = {LadderB}
    /\ Pre.player.on_ladder
    /\ Snapshot = Pre

(* C7: after every ground_detection step of the single player, on_ground is   *)
(* (right ray hit or left ray hit) of this step, whatever it was before.      *)
C7_GroundIsRayResult ==
    (AfterStep("ground_detection") /\ GetSingle(nPlayers))
        => player.on_ground = (In.right \/ In.left)

\* on_ground was true and neither ray hits: it is false after the step
C7_Witness ==
    /\ AfterStep("ground_detection")
    /\ Pre.player.on_ground
    /\ ~In.right /\ ~In.left
    /\ ~player.on_ground

(* C8: after every movement step of the single player, horizontal velocity    *)
(* is 0 when both or neither of D and A are held, 100 when only D is held,    *)
(* -100 when only A is held.                                                  *)
C8_HorizontalVelocity ==
    (AfterStep("movement") /\ GetSingle(nPlayers))
        => velocity.x = CASE "D" \in In.keys /\ "A" \notin In.keys -> 100
                          [] "A" \in In.keys /\ "D" \notin In.keys -> -100
                          [] OTHER -> 0

\* the player was moving left, D and A are both held: horizontal velocity is 0
C8_Witness ==
    /\ AfterStep("movement")
    /\ {"D", "A"} \subseteq In.keys
    /\ Pre.velocity.x = -100
    /\ Pre.player.on_ladder /\ Pre.player.on_ground
    /\ velocity.x = 0

(* C9: a movement step that starts with on_ladder true and Space not just     *)
(* pressed ends with vertical velocity (upHeld - downHeld) * 100.             *)
C9_ClimbVelocity ==
    (AfterStep("movement") /\ Pre.player.on_ladder /\ ~In.space)
        => velocity.y = CASE "W" \in In.keys /\ "S" \notin In.keys -> 100
                          [] "S" \in In.keys /\ "W" \notin In.keys -> -100
                          [] OTHER -> 0

\* the physics step left a falling velocity, W and S are both held: it becomes 0
C9_Witness ==
    /\ AfterStep("movement")
    /\ Pre.player.on_ladder /\ ~In.space
    /\ {"W", "S"} \subseteq In.keys
    /\ Pre.velocity.y = -250
    /\ velocity.y = 0

\* what the step just taken makes of the state it started from when the query
\* of its system yields the player
SinglePlayerResult ==
    CASE AfterStep("ground_detection") ->
            [player |-> GroundDetection(Pre.player, In.right, In.left),
             velocity |-> Pre.velocity]
      [] AfterStep("ladder_and_pad_detection") ->
            LET s == ProcessCollisions(
                        [player |-> Pre.player, velocity |-> Pre.velocity, pad |-> FALSE],
                        In.batch)
            IN [player |-> s.player, velocity |-> s.velocity]
      [] AfterStep("movement") -> Movement(Pre, In.keys, In.space)
      [] OTHER -> Snapshot

(* C10, as stated: with more than one Player entity, the three systems        *)
(* update the first player as they do a single player.                        *)
C10_FirstPlayerUpdated ==
    (nPlayers > 1 /\ last.sys \in Systems) => Snapshot = SinglePlayerResult

(* C10, amended: with more than one Player entity, each of the three systems  *)
(* skips the frame: no player's on_ground, over_ladders, on_ladder or         *)
(* velocity changes.                                                          *)
C10_SeveralPlayersSkip ==
    (nPlayers > 1 /\ last.sys \in Systems) => Snapshot = Pre

\* two players, movement ran with D held and Space just pressed: nothing moved
C10_Witness ==
    /\ nPlayers = 2
    /\ AfterStep("movement")
    /\ "D" \in In.keys /\ In.space
    /\ Snapshot = Pre

----------------------------------------------------------------------------
(* C11: with no Player entity, each of ground_detection,                      *)
(* ladder_and_pad_detection and movement changes no state; the contact events *)
(* of the frame are read and dropped.                                         *)
C11_NoPlayerIsNoOp ==
    (nPlayers = 0 /\ last.sys \in Systems)
        => (Snapshot = Pre /\ Snapshot = [player |-> DefaultPlayer, velocity |-> Pre.velocity]
            /\ ~padBegan)

\* no player, and a frame ends in which a pad begin-contact was delivered and dropped
C11_Witness ==
    /\ nPlayers = 0
    /\ FrameComplete
    /\ AfterStep("ladder_and_pad_detection")
    /\ \E i \in 1..Len(In.batch) : IsBegin(In.batch[i], PadEntity)
    /\ Snapshot = Pre

----------------------------------------------------------------------------
\* r is n / d rounded to the nearest integer, halves away from zero (n >= 0, d > 0)
IsRounded(r, n, d) == 2 * (r * d - n) <= d /\ 2 * (n - r * d) < d

(* C12: when fit_camera finds a level of pixel size (w, h) under window aspect *)
(* a, bottom = left = 0 and, if w / h < a, top = h and right = round(h * a),   *)
(* otherwise right = w and top = round(w / a); in both cases right >= w and    *)
(* top >= h; 320x180 gives 320 by 320 for a = 1 and 540 by 180 for a = 3.      *)
(* When it finds no level the projection is left unchanged.                    *)
C12_CameraFitContainsLevel ==
    LET w == fit.matched[1]
        h == fit.matched[2]
        aw == fit.window.width
        ah == fit.window.height
    IN /\ fit.matched = NoLevel => projection = fit.pre
       /\ fit.matched # NoLevel =>
            /\ projection.bottom = 0 /\ projection.left = 0
            /\ w * ah < aw * h
                => (projection.top = h /\ IsRounded(projection.right, h * aw, ah))
            /\ ~(w * ah < aw * h)
                => (projection.right = w /\ IsRounded(projection.top, w * ah, aw))
            /\ projection.right >= w /\ projection.top >= h
            /\ (w = 320 /\ h = 180 /\ aw = ah)
                => (projection.right = 320 /\ projection.top = 320)
            /\ (w = 320 /\ h = 180 /\ aw = 3 * ah)
                => (projection.right = 540 /\ projection.top = 180)

\* the 320x180 level was fitted under window aspect 3
C12_Witness ==
    /\ fit.matched = <<320, 180>>
    /\ fit.window = [width |-> 3, height |-> 1]
    /\ projection.right = 540 /\ projection.top = 180
    /\ fit.pre.scaling_mode = "WindowSize"

----------------------------------------------------------------------------
(* The colliders of the map: CollisionBundle::from of an int-grid cell and of *)
(* an entity instance. A field the code leaves to ..Default::default() has    *)
(* the library's default: the shape a sphere of radius 1, the body kind       *)
(* Dynamic (the kind the player's body gets the same way), no rotation lock.  *)

Cuboid(hx, hy) == [kind |-> "Cuboid", half_extends |-> <<hx, hy>>, radius |-> 0]

Sphere(r) == [kind |-> "Sphere", half_extends |-> <<0, 0>>, radius |-> r]

DefaultCollisionBundle ==
    [collision_shape |-> Sphere(1), rigid_body |-> "Dynamic",
     rotation_constraints |-> "allow", friction |-> "default"]

\* a bug: the pad gets the ladder's full-height box
PadAsLadder(value) ==
    IF value = 1
    THEN [DefaultCollisionBundle EXCEPT !.collision_shape = Cuboid(9, 9),
                                        !.rigid_body = "Static", !.friction = "0.1"]
    ELSE IF value \in {2, 3}
    THEN [DefaultCollisionBundle EXCEPT !.collision_shape = Cuboid(9, 9),
                                        !.rigid_body = "Sensor"]
    ELSE DefaultCollisionBundle

FromIntGridCell(value) ==
    CASE value = 1 ->
            [DefaultCollisionBundle EXCEPT !.collision_shape = Cuboid(9, 9),
                                           !.rigid_body = "Static", !.friction = "0.1"]
      [] value = 2 ->
            [DefaultCollisionBundle EXCEPT !.collision_shape = Cuboid(9, 9),
                                           !.rigid_body = "Sensor"]
      [] value = 3 ->
            [DefaultCollisionBundle EXCEPT !.collision_shape = Cuboid(9, 5),
                                           !.rigid_body = "Sensor"]
      [] OTHER -> DefaultCollisionBundle

FromEntityInstance ==
    [DefaultCollisionBundle EXCEPT !.collision_shape = Cuboid(10, 12),
                                   !.rotation_constraints = "lock"]

CellCodes == -1..MaxCode

IntGridCell(value) == [from |-> "IntGridCell", value |-> value]

EntityInstance == [from |-> "EntityInstance", value |-> 0]

\* a collider is built from an int-grid cell
from_int_grid_cell ==
    /\ Len(spawned) < MaxSpawned
    /\ \E value \in CellCodes :
        spawned' = Append(spawned, [of |-> IntGridCell(value), bundle |-> FromIntGridCell(value)])
    /\ UNCHANGED <<frameVars, cameraVars, loadVars>>

\* a collider is built from an entity instance of the map (the player)
from_entity_instance ==
    /\ Len(spawned) < MaxSpawned
    /\ spawned' = Append(spawned, [of |-> EntityInstance, bundle |-> FromEntityInstance])
    /\ UNCHANGED <<frameVars, cameraVars, loadVars>>

NextTiles ==
    \/ from_int_grid_cell
    \/ from_entity_instance

InitTiles == InitCamera

SpecTiles == InitTiles /\ [][NextTiles]_vars

Built(i) == spawned[i].bundle

FromCell(i, value) == spawned[i].of = IntGridCell(value)

OtherCode(i) ==
    spawned[i].of.from = "IntGridCell" /\ spawned[i].of.value \notin {1, 2, 3}

\* what the table says of codes 1, 2, 3 and of the player, and that the same
\* input always gives the same bundle
KnownTilesTable ==
    /\ \A i \in 1..Len(spawned) :
        /\ FromCell(i, 1) =>
            /\ Built(i).collision_shape = Cuboid(9, 9)
            /\ Built(i).rigid_body = "Static"
            /\ Built(i).friction = "0.1"
        /\ FromCell(i, 2) =>
            /\ Built(i).collision_shape = Cuboid(9, 9)
            /\ Built(i).rigid_body = "Sensor"
        /\ FromCell(i, 3) =>
            /\ Built(i).collision_shape = Cuboid(9, 5)
            /\ Built(i).rigid_body = "Sensor"
        /\ spawned[i].of.from = "IntGridCell" => Built(i).rotation_constraints = "allow"
        /\ spawned[i].of = EntityInstance =>
            /\ Built(i).collision_shape = Cuboid(10, 12)
            /\ Built(i).rotation_constraints = "lock"
    /\ \A i, j \in 1..Len(spawned) : spawned[i].of = spawned[j].of => Built(i) = Built(j)

(* C13, as stated: code 1 gives a 9x9 box, Static, friction 0.1; code 2 gives  *)
(* 9x9, Sensor; code 3 gives 9x5, Sensor; every other code gives a zero box    *)
(* with body kind Static; no tile has rotation locked; the same code gives the *)
(* same bundle; the player gives a 10x12 box with rotation locked.             *)
C13_OtherCodesStatic ==
    /\ KnownTilesTable
    /\ \A i \in 1..Len(spawned) : OtherCode(i) =>
        /\ Built(i).collision_shape = Cuboid(0, 0)
        /\ Built(i).rigid_body = "Static"

(* C13, amended: as stated for codes 1, 2, 3 and the player; every other code  *)
(* gives the default bundle, whose body kind is the default one, Dynamic, the  *)
(* kind the player's body has, and whose shape is the default sphere.          *)
C13_TileTable ==
    /\ KnownTilesTable
    /\ \A i \in 1..Len(spawned) : OtherCode(i) =>
        /\ Built(i) = DefaultCollisionBundle
        /\ Built(i).rigid_body = "Dynamic"
        /\ Built(i).rigid_body = FromEntityInstance.rigid_body
        /\ Built(i).collision_shape = Sphere(1)

C13_Witness ==
    /\ Len(spawned) = 3
    /\ FromCell(1, 3)
    /\ spawned[2].of = IntGridCell(-1) /\ Built(2).rigid_body = "Dynamic"
    /\ spawned[3].of = EntityInstance /\ Built(3).rotation_constraints = "lock"

\* the movement step of a frame whose contact events took the climbing player
\* off the last ladder before movement ran
LeftLadderThenMoved ==
    /\ AfterStep("movement")
    /\ GetSingle(nPlayers)
    /\ leftLast
    /\ Pre.player.on_ladder

(* C14, as stated: in the frame in which the end-contact of the last ladder is *)
(* processed before movement runs, movement applies no ladder control even if  *)
(* on_ladder was true: vertical velocity is left alone, or set to 200 by a     *)
(* jump from the ground only.                                                  *)
C14_NoLagOnLeavingLadder ==
    LeftLadderThenMoved
        => velocity.y = (IF In.space /\ Pre.player.on_ground THEN JumpSpeed ELSE Pre.velocity.y)

(* C14, amended: in that frame movement still applies ladder control once:     *)
(* vertical velocity is 200 if Space is just pressed, (upHeld - downHeld) * 100 *)
(* otherwise; on_ladder is false after the step, so control is lost from the   *)
(* next frame on.                                                              *)
C14_OneFrameOfLadderControl ==
    LeftLadderThenMoved
        => /\ Pre.player.over_ladders = {}
           /\ velocity.y = (IF In.space THEN JumpSpeed
                            ELSE (Held(In.keys, "W") - Held(In.keys, "S")) * ClimbSpeed)
           /\ ~player.on_ladder

\* the player left the last ladder in this frame and movement, with W held,
\* still set the climb speed over a falling velocity
C14_Witness ==
    /\ LeftLadderThenMoved
    /\ In.keys = {"W"} /\ ~In.space
    /\ ~Pre.player.on_ground
    /\ Pre.velocity.y = -250
    /\ velocity.y = ClimbSpeed
    /\ ~player.on_ladder

(* C15: in every frame each of ground_detection, ladder_and_pad_detection and  *)
(* movement runs once, and movement runs only after ground_detection and       *)
(* ladder_and_pad_detection have run in that frame.                            *)
C15_DetectionBeforeMovement ==
    /\ \A i, j \in 1..Len(ran) : ran[i] = ran[j] => i = j
    /\ HasRun("movement")
        => /\ HasRun("ground_detection")
           /\ HasRun("ladder_and_pad_detection")
           /\ Position("ground_detection") < Position("movement")
           /\ Position("ladder_and_pad_detection") < Position("movement")

(* C16: a movement step of the single player sets vertical velocity to 200     *)
(* only if Space is just pressed and on_ground or on_ladder is true at its     *)
(* start; a movement step that starts with on_ground and on_ladder both false  *)
(* leaves vertical velocity unchanged, whatever keys are held or just pressed. *)
C16_JumpNeedsSupport ==
    (AfterStep("movement") /\ GetSingle(nPlayers))
        => /\ (velocity.y = JumpSpeed /\ Pre.velocity.y # JumpSpeed)
                => (In.space /\ (Pre.player.on_ground \/ Pre.player.on_ladder))
           /\ (~Pre.player.on_ground /\ ~Pre.player.on_ladder)
                => velocity.y = Pre.velocity.y

\* Space is just pressed, with W held, by a falling player off the ground and
\* off the ladder, and the fall goes on
C16_Witness ==
    /\ AfterStep("movement") /\ GetSingle(nPlayers)
    /\ ~Pre.player.on_ground /\ ~Pre.player.on_ladder
    /\ In.space /\ In.keys = {"W"}
    /\ Pre.velocity.y = -250
    /\ velocity.y = -250

----------------------------------------------------------------------------
(* pause_physics_during_load: the level events of the frame, in delivery      *)
(* order, set the scale of PhysicsTime.                                       *)

LevelEvents == {"SpawnTriggered", "Spawned", "Transformed", "Despawned"}

LevelEventBatches == SeqsUpTo(LevelEvents, MaxLevelEvents)

\* a bug: physics resumes when the level is spawned, before it is transformed
ResumeOnSpawned(scale, event) ==
    CASE event = "SpawnTriggered" -> 0
      [] event = "Spawned" -> 1
      [] OTHER -> scale

\* one arm of the match
OnLevelEvent(scale, event) ==
    CASE event = "SpawnTriggered" -> 0
      [] event = "Transformed" -> 1
      [] OTHER -> scale

RECURSIVE ProcessLevelEvents(_, _)
ProcessLevelEvents(scale, batch) ==
    IF batch = <<>> THEN scale
    ELSE ProcessLevelEvents(OnLevelEvent(scale, Head(batch)), Tail(batch))

\* the SpawnTriggered and Transformed events of a batch, in order
FreezeEvents(batch) ==
    SelectSeq(batch, LAMBDA e : e \in {"SpawnTriggered", "Transformed"})

pause_physics_during_load ==
    /\ \E batch \in LevelEventBatches :
        /\ time_scale' = ProcessLevelEvents(time_scale, batch)
        /\ lastLoad' = IF FreezeEvents(batch) = <<>> THEN lastLoad
                       ELSE FreezeEvents(batch)[Len(FreezeEvents(batch))]
        /\ loadLog' = [batch |-> batch, pre |-> time_scale]
    /\ UNCHANGED <<frameVars, cameraVars, tileVars>>

NextPause == pause_physics_during_load

InitPause == InitCamera

SpecPause == InitPause /\ [][NextPause]_vars

(* C17: a run of pause_physics_during_load leaves the scale at 0 if the last   *)
(* SpawnTriggered or Transformed event it read is SpawnTriggered, at 1 if it   *)
(* is Transformed, and as it was if it read neither; so the scale is 0 exactly *)
(* when the most recent of these events is SpawnTriggered.                     *)
C17_FrozenWhileSpawning ==
    LET relevant == FreezeEvents(loadLog.batch)
    IN /\ time_scale = (IF relevant = <<>> THEN loadLog.pre
                        ELSE IF relevant[Len(relevant)] = "SpawnTriggered" THEN 0 ELSE 1)
       /\ time_scale = 0 <=> lastLoad = "SpawnTriggered"
       /\ time_scale \in {0, 1}

\* a run resumed and froze physics again, and the Spawned that followed left it frozen
C17_Witness ==
    /\ loadLog = [batch |-> <<"Transformed", "SpawnTriggered", "Spawned">>, pre |-> 0]
    /\ time_scale = 0
    /\ lastLoad = "SpawnTriggered"

\* a contact event without the player, a contact event of the player with a
\* body that is neither a ladder nor a pad, or an end-contact of the player with a pad
Irrelevant(col) ==
    \/ PlayerEntity \notin {col.a, col.b}
    \/ \E o \in OtherEntities \ (ladders \cup pads) : IsBegin(col, o) \/ IsEnd(col, o)
    \/ \E o \in pads : IsEnd(col, o)

PadBegins(batch) == {i \in 1..Len(batch) : \E o \in pads : IsBegin(batch[i], o)}

(* C18: a run of ladder_and_pad_detection on events that are all irrelevant    *)
(* (no player in the pair, the player with a wall, the end of a pad contact)   *)
(* leaves over_ladders, on_ladder, on_ground and the velocity unchanged; the   *)
(* irrelevant events of any batch can be dropped without changing the result;  *)
(* and a batch with one or several pad begin-contacts leaves vertical velocity *)
(* at 350.                                                                     *)
C18_IrrelevantEventsChangeNothing ==
    (AfterStep("ladder_and_pad_detection") /\ GetSingle(nPlayers))
        => /\ (\A i \in 1..Len(In.batch) : Irrelevant(In.batch[i])) => Snapshot = Pre
           /\ LET kept == SelectSeq(In.batch, LAMBDA col : ~Irrelevant(col))
                  s == ProcessCollisions(
                          [player |-> Pre.player, velocity |-> Pre.velocity, pad |-> FALSE], kept)
              IN Snapshot = [player |-> s.player, velocity |-> s.velocity]
           /\ PadBegins(In.batch) # {} => velocity.y = PadSpeed
           /\ PadBegins(In.batch) = {} => velocity = Pre.velocity

\* two pad begin-contacts, one on each side, with a wall contact between them
C18_Witness ==
    /\ AfterStep("ladder_and_pad_detection")
    /\ In.batch = <<Started(PlayerEntity, PadEntity), Stopped(WallEntity, PlayerEntity),
                    Started(PadEntity, PlayerEntity)>>
    /\ Pre.velocity.y = 0
    /\ velocity.y = PadSpeed
    /\ player = Pre.player
    /\ player.over_ladders = {LadderA}

----------------------------------------------------------------------------
(* The contact tracker when ladders leave the world: the level's entities are *)
(* despawned with their level, and Query<&Ladder> no longer matches them.     *)

\* a ladder is despawned, or loses its Ladder component
ladder_despawned ==
    /\ ~HasRun("ladder_and_pad_detection")
    /\ \E l \in ladders : ladders' = ladders \ {l}
    /\ UNCHANGED <<nPlayers, player, velocity, pads, ran, padBegan, last, leftLast>>
    /\ UNCHANGED <<cameraVars, tileVars, loadVars>>

NextTags ==
    \/ ladder_despawned
    \/ contact_tracking

InitTags == InitContacts

SpecTags == InitTags /\ [][NextTags]_vars

\* the ladders in contact with the player after the events of batch, from the
\* set open in contact before it: a begin with a body that is a ladder opens a
\* contact, an end with a body closes it
RECURSIVE OpenLadders(_, _)
OpenLadders(open, batch) ==
    IF batch = <<>> THEN open
    ELSE LET col == Head(batch)
             begun == {l \in ladders : IsBegin(col, l)}
             ended == {l \in LadderEntities : IsEnd(col, l)}
         IN OpenLadders((open \cup begun) \ ended, Tail(batch))

(* C19: after a run of ladder_and_pad_detection, over_ladders holds no player, *)
(* pad or wall and is the set of ladders whose most recent contact event with  *)
(* the player is a begin, the player on either side of the pair, also when a   *)
(* ladder in the set lost its Ladder tag or left the world before its          *)
(* end-contact: no id stays in the set after its end-contact.                  *)
C19_OverlapTracksOpenContacts ==
    (AfterStep("ladder_and_pad_detection") /\ GetSingle(nPlayers))
        => /\ player.over_ladders \subseteq LadderEntities
           /\ player.over_ladders = OpenLadders(Pre.player.over_ladders, In.batch)

====
